---- MODULE Spec2Model ----
(***************************************************************************)
(* The two benchmark scripts bench_loss_module_hgbt.py and                 *)
(* bench_loss_module_logistic.py as one state machine.                     *)
(*                                                                         *)
(* A script reads the OpenMP thread count, and then twice (binary data,    *)
(* then multiclass data) builds a data set, builds a neurtu Benchmark,     *)
(* hands it the generator benchmark_cases(X, y) and tags the table that    *)
(* comes back; at the end it concatenates the two tables, adds the thread  *)
(* count and writes one parquet file.                                      *)
(*                                                                         *)
(* neurtu.Benchmark is an imported package; its code is not part of the    *)
(* repository.  The model therefore gives it the behaviour every caller    *)
(* has to be prepared for: while the call bench(...) is open it may        *)
(* resume the generator, it may invoke the fit of any unit it has been     *)
(* handed, such an invocation may return or raise, and the call may        *)
(* return a table.  What the table holds is the package's business: its    *)
(* rows are opaque tokens here.  The scripts have no try/except, so an     *)
(* exception that leaves bench(...) ends the script.                       *)
(***************************************************************************)
EXTENDS Integers, Sequences, FiniteSets, TLC

VARIABLES
    script,      \* which of the two scripts runs
    pc,          \* the statement the script is at
    sweep,       \* 1: binary section, 2: multiclass section
    n_threads,   \* global n_threads
    n_classes,   \* global n_classes (0 before the first assignment)
    data,        \* globals X, y: the class count of the data set they hold
    bench,       \* global bench: the options of the Benchmark object
    genData,     \* X, y bound by the open call benchmark_cases(X, y)
    gen,         \* the units the open generator has yielded so far
    calls,       \* per yielded unit, the fit invocations that returned
    raised,      \* the sweep in which a fit invocation raised (0: none)
    completed,   \* the sweeps whose bench(...) call has returned
    df_binary,   \* table of the binary sweep
    df_multi,    \* table of the multiclass sweep
    df,          \* the combined table
    parquet,     \* rows of the parquet file this run has written
    writes       \* number of to_parquet calls of this run

vars == <<script, pc, sweep, n_threads, n_classes, data, bench, genData, gen,
          calls, raised, completed, df_binary, df_multi, df, parquet, writes>>

(***************************************************************************)
(* Bounds of the model.                                                    *)
(***************************************************************************)
\* fit invocations of one unit that the model follows
MaxCalls == 1
\* rows of the table one bench(...) call returns
MaxRows == 2
\* thread counts the OpenMP query may answer: 1..MaxThreads
MaxThreads == 2

(***************************************************************************)
(* Constants of the scripts.                                               *)
(***************************************************************************)
Scripts == {"hgbt", "logistic"}

n_samples == 100000

\* number of points np.logspace is asked for
NumN == 4

\* bench_options
bench_options(s) ==
    [wall_time |-> TRUE, cpu_time |-> TRUE, peak_memory |-> TRUE,
     repeat |-> IF s = "hgbt" THEN 20 ELSE 10]

\* early_stopping = [True, False] / solvers = ["lbfgs", "newton-cg"]
Variants(s) ==
    IF s = "hgbt" THEN <<"True", "False">> ELSE <<"lbfgs", "newton-cg">>

\* the tag key of the inner loop variable
VariantKey(s) == IF s = "hgbt" THEN "early_stopping" ELSE "solver"

EstimatorName(s) ==
    IF s = "hgbt" THEN "HistGradientBoostingClassifier" ELSE "LogisticRegression"

\* n_classes = 2 and n_classes = 10
ClassesOf(sw) == IF sw = 1 THEN 2 ELSE 10

(***************************************************************************)
(* np.logspace(log10(n_samples/1e3), log10(n_samples), 4).astype('int')    *)
(***************************************************************************)
RECURSIVE Log10(_)
Log10(n) == IF n < 10 THEN 0 ELSE 1 + Log10(n \div 10)

RECURSIVE Pow10(_)
Pow10(e) == IF e = 0 THEN 1 ELSE 10 * Pow10(e - 1)

\* the i-th of the NumN exponents, evenly spaced between the two ends
Exponent(i) ==
    LET lo == Log10(n_samples \div 1000)
        hi == Log10(n_samples)
    IN  lo + ((i - 1) * (hi - lo)) \div (NumN - 1)

NGrid(i) == Pow10(Exponent(i))

(***************************************************************************)
(* The generator benchmark_cases(X, y).                                    *)
(***************************************************************************)
NumUnits(s) == NumN * Len(Variants(s))

\* The unit produced by the (k+1)-th resumption of the generator, k units
\* having been yielded before: N is the outer loop, the variant the inner.
UnitAt(s, k, d) ==
    LET nv == Len(Variants(s))
        N  == NGrid((k \div nv) + 1)
        v  == Variants(s)[(k % nv) + 1]
    IN  [tags     |-> <<<<"N", N>>, <<VariantKey(s), v>>>>,
         clf      |-> [id |-> k + 1,
                       solver |-> IF s = "hgbt" THEN "none" ELSE v],
         nrows    |-> N,
         dataset  |-> d]

(***************************************************************************)
(* Tables: a sequence of rows, a row a function from column name to value. *)
(***************************************************************************)
\* the table of r rows a bench(...) call hands back (contents opaque)
LibTable(r) == [i \in 1..r |-> [lib |-> i]]

\* df[c] = v with a scalar v: the column is set in every row
AddColumn(t, c, v) ==
    [i \in DOMAIN t |->
        [k \in (DOMAIN t[i]) \cup {c} |-> IF k = c THEN v ELSE t[i][k]]]

\* pd.concat([a, b]): a new table, the rows of a and then those of b
Concat(a, b) == a \o b

(***************************************************************************)
(* Initial state: the interpreter is about to run the script body.         *)
(***************************************************************************)
Init ==
    /\ script \in Scripts
    /\ pc = "threads"
    /\ sweep = 1
    /\ n_threads = 0
    /\ n_classes = 0
    /\ data = 0
    /\ bench = [wall_time |-> FALSE, cpu_time |-> FALSE,
                peak_memory |-> FALSE, repeat |-> 0]
    /\ genData = 0
    /\ gen = <<>>
    /\ calls = <<>>
    /\ raised = 0
    /\ completed = {}
    /\ df_binary = <<>>
    /\ df_multi = <<>>
    /\ df = <<>>
    /\ parquet = <<>>
    /\ writes = 0

(***************************************************************************)
(* The script body.                                                        *)
(***************************************************************************)
\* n_threads = _openmp_effective_n_threads()
ReadThreads ==
    /\ pc = "threads"
    /\ \E t \in 1..MaxThreads : n_threads' = t
    /\ pc' = "data"
    /\ UNCHANGED <<script, sweep, n_classes, data, bench, genData, gen, calls,
                   raised, completed, df_binary, df_multi, df, parquet, writes>>

\* n_classes = ...; X, y = make_classification(...)
MakeData ==
    /\ pc = "data"
    /\ n_classes' = ClassesOf(sweep)
    /\ data' = ClassesOf(sweep)
    /\ pc' = "bench"
    /\ UNCHANGED <<script, sweep, n_threads, bench, genData, gen, calls,
                   raised, completed, df_binary, df_multi, df, parquet, writes>>

\* bench = Benchmark(**bench_options)
NewBench ==
    /\ pc = "bench"
    /\ bench' = bench_options(script)
    /\ pc' = "call"
    /\ UNCHANGED <<script, sweep, n_threads, n_classes, data, genData, gen,
                   calls, raised, completed, df_binary, df_multi, df, parquet,
                   writes>>

\* bench(benchmark_cases(X, y)) is entered: the generator object exists,
\* bound to the current X, y, and none of its body has run.
CallBench ==
    /\ pc = "call"
    /\ genData' = data
    /\ gen' = <<>>
    /\ calls' = <<>>
    /\ pc' = "running"
    /\ UNCHANGED <<script, sweep, n_threads, n_classes, data, bench, raised,
                   completed, df_binary, df_multi, df, parquet, writes>>

(***************************************************************************)
(* Inside the open call bench(...).                                        *)
(***************************************************************************)
\* The generator is resumed and yields its next unit: tags, a new
\* estimator, and the delayed fit on the first N rows.
GeneratorNext ==
    /\ pc = "running"
    /\ Len(gen) < NumUnits(script)
    /\ gen' = Append(gen, UnitAt(script, Len(gen), genData))
    /\ calls' = Append(calls, 0)
    /\ UNCHANGED <<script, pc, sweep, n_threads, n_classes, data, bench,
                   genData, raised, completed, df_binary, df_multi, df,
                   parquet, writes>>

\* clf.fit(X[:N, :], y[:N]) of a yielded unit is invoked and returns
FitReturns(u) ==
    /\ pc = "running"
    /\ u \in 1..Len(gen)
    /\ calls[u] < MaxCalls
    /\ calls' = [calls EXCEPT ![u] = @ + 1]
    /\ UNCHANGED <<script, pc, sweep, n_threads, n_classes, data, bench,
                   genData, gen, raised, completed, df_binary, df_multi, df,
                   parquet, writes>>

\* A handler around bench(...) that goes on with an empty table.
FitRaisesHandled(u) ==
    /\ pc = "running"
    /\ u \in 1..Len(gen)
    /\ raised' = sweep
    /\ IF sweep = 1
       THEN df_binary' = <<>> /\ UNCHANGED df_multi
       ELSE df_multi' = <<>> /\ UNCHANGED df_binary
    /\ gen' = <<>>
    /\ calls' = <<>>
    /\ pc' = "tag"
    /\ UNCHANGED <<script, sweep, n_threads, n_classes, data, bench, genData,
                   completed, df, parquet, writes>>

\* clf.fit(...) of a yielded unit is invoked and raises.  The exception is
\* taken to leave bench(...), as an exception does unless the callee
\* catches it; nothing in the script catches it, so the script ends.
FitRaises(u) ==
    /\ pc = "running"
    /\ u \in 1..Len(gen)
    /\ raised' = sweep
    /\ pc' = "failed"
    /\ UNCHANGED <<script, sweep, n_threads, n_classes, data, bench, genData,
                   gen, calls, completed, df_binary, df_multi, df, parquet,
                   writes>>

\* df_..._binary = bench(...) / df_..._multi = bench(...): the call returns,
\* and with it the generator passed as its argument goes away
BenchReturns ==
    /\ pc = "running"
    /\ \E r \in 0..MaxRows :
          IF sweep = 1
          THEN df_binary' = LibTable(r) /\ UNCHANGED df_multi
          ELSE df_multi' = LibTable(r) /\ UNCHANGED df_binary
    /\ completed' = completed \cup {sweep}
    /\ gen' = <<>>
    /\ calls' = <<>>
    /\ pc' = "tag"
    /\ UNCHANGED <<script, sweep, n_threads, n_classes, data, bench, genData,
                   raised, df, parquet, writes>>

(***************************************************************************)
(* After a sweep.                                                          *)
(***************************************************************************)
\* the table of the current sweep with its two tag columns set
Tagged(t) ==
    AddColumn(AddColumn(t, "estimator", EstimatorName(script)),
              "n_classes", n_classes)

\* A script that writes each sweep's table as soon as it is tagged.
TagTableAndSave ==
    /\ pc = "tag"
    /\ IF sweep = 1
       THEN /\ df_binary' = Tagged(df_binary)
            /\ parquet' = df_binary'
            /\ sweep' = 2
            /\ pc' = "data"
            /\ UNCHANGED df_multi
       ELSE /\ df_multi' = Tagged(df_multi)
            /\ parquet' = df_multi'
            /\ pc' = "concat"
            /\ UNCHANGED <<df_binary, sweep>>
    /\ writes' = writes + 1
    /\ UNCHANGED <<script, n_threads, n_classes, data, bench, genData, gen,
                   calls, raised, completed, df>>

\* df_x["estimator"] = "..."; df_x["n_classes"] = n_classes
TagTable ==
    /\ pc = "tag"
    /\ IF sweep = 1
       THEN /\ df_binary' = Tagged(df_binary)
            /\ sweep' = 2
            /\ pc' = "data"
            /\ UNCHANGED df_multi
       ELSE /\ df_multi' = Tagged(df_multi)
            /\ pc' = "concat"
            /\ UNCHANGED <<df_binary, sweep>>
    /\ UNCHANGED <<script, n_threads, n_classes, data, bench, genData, gen,
                   calls, raised, completed, df, parquet, writes>>

\* df = pd.concat([df_..._binary, df_..._multi])
ConcatTables ==
    /\ pc = "concat"
    /\ df' = Concat(df_binary, df_multi)
    /\ pc' = "nthreads"
    /\ UNCHANGED <<script, sweep, n_threads, n_classes, data, bench, genData,
                   gen, calls, raised, completed, df_binary, df_multi, parquet,
                   writes>>

\* df["n_threads"] = n_threads
AddThreads ==
    /\ pc = "nthreads"
    /\ df' = AddColumn(df, "n_threads", n_threads)
    /\ pc' = "save"
    /\ UNCHANGED <<script, sweep, n_threads, n_classes, data, bench, genData,
                   gen, calls, raised, completed, df_binary, df_multi, parquet,
                   writes>>

\* df.to_parquet("bench_loss_module_....parquet"), the last statement
Save ==
    /\ pc = "save"
    /\ parquet' = df
    /\ writes' = writes + 1
    /\ pc' = "done"
    /\ UNCHANGED <<script, sweep, n_threads, n_classes, data, bench, genData,
                   gen, calls, raised, completed, df_binary, df_multi, df>>

Next ==
    \/ ReadThreads
    \/ MakeData
    \/ NewBench
    \/ CallBench
    \/ GeneratorNext
    \/ \E u \in 1..Len(gen) : FitReturns(u)
    \/ \E u \in 1..Len(gen) : FitRaises(u)
    \/ BenchReturns
    \/ TagTable
    \/ ConcatTables
    \/ AddThreads
    \/ Save

Spec == Init /\ [][Next]_vars

(***************************************************************************)
(* What the generator alone fixes, whatever the package does with it.      *)
(***************************************************************************)
\* The units yielded so far are the first Len(gen) grid points in loop
\* order (N ascending outside, variant inside); each carries its own N and
\* variant as tags, fits on the first N rows of the data set the generator
\* was created with, and owns an estimator built at its own resumption.
GeneratorOrder ==
    \A k \in 1..Len(gen) :
        /\ gen[k] = UnitAt(script, k - 1, genData)
        /\ gen[k].tags[1][2] = gen[k].nrows
        /\ gen[k].clf.id = k
        /\ gen[k].dataset = data
        /\ \A j \in 1..(k - 1) :
              /\ gen[j].nrows <= gen[k].nrows
              /\ gen[j].tags /= gen[k].tags

\* N runs over 100, 1000, 10000, 100000
GridValues ==
    <<NGrid(1), NGrid(2), NGrid(3), NGrid(4)>> = <<100, 1000, 10000, 100000>>

\* No fit is invoked on a unit the generator has not yet yielded.
NoCallBeforeYield == Len(calls) = Len(gen)

C10_FailureWritesNothing ==
    raised /= 0 =>
        /\ pc = "failed"
        /\ writes = 0
        /\ parquet = <<>>
        /\ ~ENABLED Next

\* a fit raises in the multiclass sweep, after fits of that sweep returned
\* and after the binary sweep had produced a table with rows
C10_Witness ==
    /\ raised = 2
    /\ pc = "failed"
    /\ 1 \in completed
    /\ Len(df_binary) > 0
    /\ \E u \in 1..Len(calls) : calls[u] > 0

\* the same in the binary sweep
C10_WitnessBinary ==
    /\ raised = 1
    /\ pc = "failed"
    /\ \E u \in 1..Len(calls) : calls[u] > 0

====
